---- MODULE Spec2Model ----
(***************************************************************************)
(* dot-dsl: the graph builder of src/src/lib.rs.                           *)
(*                                                                         *)
(* A caller holds one value at a time (a Node, an Edge or a Graph) and     *)
(* drives it through a builder chain: a constructor, then with_* calls,    *)
(* each consuming the value and returning the next one, with reads         *)
(* (attr, name, node) in between.  A HashMap<String, String> is a function *)
(* from its key set to values; the order in which a HashMap enumerates its *)
(* entries is unspecified, so every operator that flattens a map yields    *)
(* the SET of results the possible orders can produce.                     *)
(***************************************************************************)
EXTENDS Integers, Sequences, FiniteSets, TLC

VARIABLES
    chain,   \* "node" | "edge" | "graph": the type of the value held in x
    x,       \* the value the builder chain currently holds
    last,    \* the last call: its name, receiver, argument and results
    passed,  \* the node and edge lists passed to with_nodes/with_edges since Graph::new()
    kept     \* <<v>>: a clone v the caller took of an earlier value; <<>>: none

vars == <<chain, x, last, passed, kept>>

----------------------------------------------------------------------------
(* Bounds of the exploration.                                              *)

\* nodes plus edges a graph may hold
MaxItems == 3
\* pairs in one attribute list
MaxKvs == 2
\* the same two bounds while the caller holds a retained clone
MaxKeptItems == 1
MaxKeptKvs == 1

Names == {"a", "b"}
Keys == {"a", "b"}
\* the attribute pairs a caller passes: key "a" with two values, key "b" with one
KvPool == {<<"a", "1">>, <<"a", "2">>, <<"b", "1">>}
\* the endpoints a caller gives an edge
EdgeEnds == {<<"a", "b">>, <<"b", "a">>}

----------------------------------------------------------------------------
(* Option<T>                                                               *)

None == <<>>
Some(v) == <<v>>

----------------------------------------------------------------------------
(* std::collections::HashMap<String, String>                               *)

HashMap_new == [k \in {} |-> ""]

\* HashMap::insert: the new value replaces the one stored under the key
HashMap_insert(m, k, v) == [j \in DOMAIN m \cup {k} |-> IF j = k THEN v ELSE m[j]]

HashMap_get(m, k) == IF k \in DOMAIN m THEN Some(m[k]) ELSE None

\* map.iter().map(|(k, v)| (k.clone(), v.clone())).collect::<Vec<_>>():
\* each entry once, in any order
HashMap_iter(m) ==
    LET n == Cardinality(DOMAIN m)
        orders == {f \in [1..n -> DOMAIN m] : \A i, j \in 1..n : i # j => f[i] # f[j]}
    IN  {[i \in 1..n |-> <<f[i], m[f[i]]>>] : f \in orders}

\* vec.into_iter().collect::<HashMap<_, _>>(): inserts the pairs left to right
RECURSIVE CollectInto(_, _)
CollectInto(m, vec) ==
    IF Len(vec) = 0 THEN m
    ELSE CollectInto(HashMap_insert(m, Head(vec)[1], Head(vec)[2]), Tail(vec))

collect(vec) == CollectInto(HashMap_new, vec)

----------------------------------------------------------------------------
(* The helper functions of mod graph.                                      *)

\* a mutation of concat_slices: the second slice in front of the first
RECURSIVE concat_slices_swapped(_, _)
concat_slices_swapped(a, b) ==
    IF Len(b) = 0 THEN a
    ELSE <<Head(b)>> \o concat_slices_swapped(a, Tail(b))

RECURSIVE concat_slices(_, _)
concat_slices(a, b) ==
    IF Len(a) = 0 THEN b
    ELSE LET tail_concat == concat_slices(Tail(a), b)
         IN  <<Head(a)>> \o tail_concat

\* a mutation of merge_two_maps: the pairs of `first` behind those of second_map
merge_two_maps_first_wins(first, second_map) ==
    {collect(concat_slices(second_vec, first)) : second_vec \in HashMap_iter(second_map)}

\* a mutation of merge_two_maps: Vec::dedup_by_key on the combined pairs before they
\* are collected, which drops a pair whose key equals that of the pair before it
RECURSIVE DedupByKey(_)
DedupByKey(vec) ==
    IF Len(vec) <= 1 THEN vec
    ELSE LET front == DedupByKey(SubSeq(vec, 1, Len(vec) - 1))
         IN  IF front[Len(front)][1] = vec[Len(vec)][1] THEN front
             ELSE Append(front, vec[Len(vec)])

merge_two_maps_dedup(first, second_map) ==
    {collect(DedupByKey(concat_slices(first, second_vec)))
        : second_vec \in HashMap_iter(second_map)}

merge_two_maps(first, second_map) ==
    {collect(concat_slices(first, second_vec)) : second_vec \in HashMap_iter(second_map)}

insert_single_kv(map, k, v) ==
    {collect(concat_slices(as_vec, <<<<k, v>>>>)) : as_vec \in HashMap_iter(map)}

RECURSIVE from_kv_list(_)
from_kv_list(kvs) ==
    IF Len(kvs) = 0 THEN {HashMap_new}
    ELSE UNION {UNION {merge_two_maps(<<>>, ins)
                         : ins \in insert_single_kv(tail_map, Head(kvs)[1], Head(kvs)[2])}
                  : tail_map \in from_kv_list(Tail(kvs))}

\* a mutation of merge_map_and_list: the existing map is dropped
merge_map_and_list_list_only(map, kvs) == from_kv_list(kvs)

merge_map_and_list(map, kvs) ==
    UNION {UNION {merge_two_maps(map_vec, new_map_from_list)
                    : new_map_from_list \in from_kv_list(kvs)}
             : map_vec \in HashMap_iter(map)}

----------------------------------------------------------------------------
(* Node                                                                    *)

Node_new(name) == [name |-> name, attrs |-> HashMap_new]

\* the Nodes self.with_attrs(attrs) can return
Node_with_attrs(self, attrs) ==
    {[name |-> self.name, attrs |-> merged_attrs]
        : merged_attrs \in merge_map_and_list(self.attrs, attrs)}

\* a mutation of Node_attr: an empty string where the key is missing
Node_attr_or_default(self, key) == IF key \in DOMAIN self.attrs THEN Some(self.attrs[key]) ELSE Some("")

Node_attr(self, key) == HashMap_get(self.attrs, key)

Node_name(self) == self.name

----------------------------------------------------------------------------
(* Edge                                                                    *)

Edge_new(node1, node2) == [node1 |-> node1, node2 |-> node2, attrs |-> HashMap_new]

\* a mutation of Edge_with_attrs: the endpoints change places
Edge_with_attrs_flipped(self, attrs) ==
    {[node1 |-> self.node2, node2 |-> self.node1, attrs |-> merged_attrs]
        : merged_attrs \in merge_map_and_list(self.attrs, attrs)}

Edge_with_attrs(self, attrs) ==
    {[node1 |-> self.node1, node2 |-> self.node2, attrs |-> merged_attrs]
        : merged_attrs \in merge_map_and_list(self.attrs, attrs)}

Edge_attr(self, key) == HashMap_get(self.attrs, key)

----------------------------------------------------------------------------
(* Graph                                                                   *)

Graph_new == [nodes |-> <<>>, edges |-> <<>>, attrs |-> HashMap_new]

\* a mutation of Graph_with_nodes: a node whose name the graph already holds is skipped
RECURSIVE Graph_with_nodes_dedup(_, _)
Graph_with_nodes_dedup(self, nodes) ==
    IF Len(nodes) = 0 THEN self
    ELSE LET have == {self.nodes[i].name : i \in 1..Len(self.nodes)}
             next == IF Head(nodes).name \in have THEN self
                     ELSE [self EXCEPT !.nodes = Append(@, Head(nodes))]
         IN  Graph_with_nodes_dedup(next, Tail(nodes))

Graph_with_nodes(self, nodes) ==
    LET merged_nodes == concat_slices(self.nodes, nodes)
    IN  [nodes |-> merged_nodes, edges |-> self.edges, attrs |-> self.attrs]

Graph_with_edges(self, edges) ==
    LET merged_edges == concat_slices(self.edges, edges)
    IN  [nodes |-> self.nodes, edges |-> merged_edges, attrs |-> self.attrs]

Graph_with_attrs(self, attrs) ==
    {[nodes |-> self.nodes, edges |-> self.edges, attrs |-> merged_attrs]
        : merged_attrs \in merge_map_and_list(self.attrs, attrs)}

\* a mutation of find_node_by_name: the tail is searched before the head is tested
RECURSIVE find_node_by_name_tail_first(_, _)
find_node_by_name_tail_first(nodes, name) ==
    IF Len(nodes) = 0 THEN None
    ELSE LET in_tail == find_node_by_name_tail_first(Tail(nodes), name)
         IN  IF in_tail # None THEN in_tail
             ELSE IF Node_name(Head(nodes)) = name THEN Some(Head(nodes)) ELSE None

RECURSIVE find_node_by_name(_, _)
find_node_by_name(nodes, name) ==
    IF Len(nodes) = 0 THEN None
    ELSE IF Node_name(Head(nodes)) = name THEN Some(Head(nodes))
         ELSE find_node_by_name(Tail(nodes), name)

Graph_node(self, name) == find_node_by_name(self.nodes, name)

----------------------------------------------------------------------------
(* What the caller passes in.                                              *)

SeqsUpTo(S, n) == UNION {[1..i -> S] : i \in 0..n}

KvLists(n) == SeqsUpTo(KvPool, n)

\* the nodes a caller puts into a graph: fresh ones, and one that shares its
\* name with a fresh one but carries an attribute
NodePool ==
    {Node_new(n) : n \in Names} \cup Node_with_attrs(Node_new("a"), <<<<"a", "1">>>>)

EdgePool == {Edge_new("a", "b"), Edge_new("b", "a")}

Items(g) == Len(g.nodes) + Len(g.edges)

\* The bounds in force: the smaller ones while a retained clone is live, and the
\* more nodes and edges a graph holds, the shorter the attribute lists it is given.
ItemBound == IF kept = <<>> THEN MaxItems ELSE MaxKeptItems
KvBound ==
    LET bound == IF kept = <<>> THEN MaxKvs ELSE MaxKeptKvs
    IN  IF chain # "graph" THEN bound
        ELSE IF Items(x) = 0 THEN bound
        ELSE IF Items(x) > bound THEN 0 ELSE bound + 1 - Items(x)

Call(op, before, arg, argAfter, ret, rerun) ==
    [op |-> op, before |-> before, arg |-> arg, argAfter |-> argAfter,
     ret |-> ret, rerun |-> rerun]

NoPassed == [nodes |-> <<>>, edges |-> <<>>]

----------------------------------------------------------------------------
(* The state machine.                                                      *)

Init ==
    /\ chain = "graph"
    /\ x = Graph_new
    /\ last = Call("Graph::new", <<>>, <<>>, <<>>, <<>>, <<>>)
    /\ passed = NoPassed
    /\ kept = <<>>

\* Constructors start a new chain; a clone retained of the old one is dropped.
NodeNew ==
    \E name \in Names :
        /\ chain' = "node"
        /\ x' = Node_new(name)
        /\ last' = Call("Node::new", <<>>, <<name>>, <<name>>, <<>>, <<>>)
        /\ passed' = NoPassed
        /\ kept' = <<>>

EdgeNew ==
    \E ends \in EdgeEnds : LET node1 == ends[1]  node2 == ends[2] IN
        /\ chain' = "edge"
        /\ x' = Edge_new(node1, node2)
        /\ last' = Call("Edge::new", <<>>, <<node1, node2>>, <<node1, node2>>, <<>>, <<>>)
        /\ passed' = NoPassed
        /\ kept' = <<>>

GraphNew ==
    /\ chain' = "graph"
    /\ x' = Graph_new
    /\ last' = Call("Graph::new", <<>>, <<>>, <<>>, <<>>, <<>>)
    /\ passed' = NoPassed
    /\ kept' = <<>>

\* with_attrs(self, attrs: &[(&str, &str)]): self is consumed, the list is only
\* read.  ret is the value returned; rerun is what the same call returns when the
\* hash maps enumerate their entries in another order.
NodeWithAttrs ==
    /\ chain = "node"
    /\ \E attrs \in KvLists(KvBound) :
         \E ret \in Node_with_attrs(x, attrs), rerun \in Node_with_attrs(x, attrs) :
            /\ x' = ret
            /\ last' = Call("Node::with_attrs", x, attrs, attrs, ret, rerun)
    /\ UNCHANGED <<chain, passed, kept>>

EdgeWithAttrs ==
    /\ chain = "edge"
    /\ \E attrs \in KvLists(KvBound) :
         \E ret \in Edge_with_attrs(x, attrs), rerun \in Edge_with_attrs(x, attrs) :
            /\ x' = ret
            /\ last' = Call("Edge::with_attrs", x, attrs, attrs, ret, rerun)
    /\ UNCHANGED <<chain, passed, kept>>

GraphWithAttrs ==
    /\ chain = "graph"
    /\ \E attrs \in KvLists(KvBound) :
         \E ret \in Graph_with_attrs(x, attrs), rerun \in Graph_with_attrs(x, attrs) :
            /\ x' = ret
            /\ last' = Call("Graph::with_attrs", x, attrs, attrs, ret, rerun)
    /\ UNCHANGED <<chain, passed, kept>>

\* a mutation of GraphWithNodes: the node vector is shared with the clones taken of
\* the graph, so the nodes pushed show in a retained clone too
GraphWithNodesShared ==
    /\ chain = "graph"
    /\ Items(x) <= ItemBound
    /\ \E nodes \in SeqsUpTo(NodePool, ItemBound - Items(x)) :
         LET ret == Graph_with_nodes(x, nodes)
         IN  /\ x' = ret
             /\ last' = Call("Graph::with_nodes", x, nodes, nodes, ret, ret)
             /\ passed' = [passed EXCEPT !.nodes = @ \o nodes]
             /\ kept' = IF kept = <<>> THEN kept
                        ELSE <<[kept[1] EXCEPT !.nodes = @ \o nodes]>>
    /\ UNCHANGED chain

\* with_nodes(self, nodes: &[Node]) and with_edges(self, edges: &[Edge])
GraphWithNodes ==
    /\ chain = "graph"
    /\ Items(x) <= ItemBound
    /\ \E nodes \in SeqsUpTo(NodePool, ItemBound - Items(x)) :
         LET ret == Graph_with_nodes(x, nodes)
         IN  /\ x' = ret
             /\ last' = Call("Graph::with_nodes", x, nodes, nodes, ret, ret)
             /\ passed' = [passed EXCEPT !.nodes = @ \o nodes]
    /\ UNCHANGED <<chain, kept>>

GraphWithEdges ==
    /\ chain = "graph"
    /\ Items(x) <= ItemBound
    /\ \E edges \in SeqsUpTo(EdgePool, ItemBound - Items(x)) :
         LET ret == Graph_with_edges(x, edges)
         IN  /\ x' = ret
             /\ last' = Call("Graph::with_edges", x, edges, edges, ret, ret)
             /\ passed' = [passed EXCEPT !.edges = @ \o edges]
    /\ UNCHANGED <<chain, kept>>

\* The reads.
NodeAttr ==
    /\ chain = "node"
    /\ \E key \in Keys :
         last' = Call("Node::attr", x, key, key, Node_attr(x, key), <<>>)
    /\ UNCHANGED <<chain, x, passed, kept>>

NodeName ==
    /\ chain = "node"
    /\ last' = Call("Node::name", x, <<>>, <<>>, Node_name(x), <<>>)
    /\ UNCHANGED <<chain, x, passed, kept>>

EdgeAttr ==
    /\ chain = "edge"
    /\ \E key \in Keys :
         last' = Call("Edge::attr", x, key, key, Edge_attr(x, key), <<>>)
    /\ UNCHANGED <<chain, x, passed, kept>>

GraphNode ==
    /\ chain = "graph"
    /\ \E name \in Names :
         last' = Call("Graph::node", x, name, name, Graph_node(x, name), <<>>)
    /\ UNCHANGED <<chain, x, passed, kept>>

\* The caller clones the value it holds (Node and Edge derive Clone; a Graph's
\* fields are public and are cloned one by one) before it goes on with the chain.
Retain ==
    /\ kept = <<>>
    /\ chain = "graph" => Items(x) <= MaxKeptItems
    /\ kept' = <<x>>
    /\ UNCHANGED <<chain, x, last, passed>>

Next ==
    \/ NodeNew
    \/ EdgeNew
    \/ GraphNew
    \/ NodeWithAttrs
    \/ EdgeWithAttrs
    \/ GraphWithAttrs
    \/ GraphWithNodes
    \/ GraphWithEdges
    \/ NodeAttr
    \/ NodeName
    \/ EdgeAttr
    \/ GraphNode
    \/ Retain

Spec == Init /\ [][Next]_vars

----------------------------------------------------------------------------
(* Properties.  Each is about the call recorded in `last`: its receiver    *)
(* last.before, its argument last.arg and the value x it returned.         *)

WithAttrsOps == {"Node::with_attrs", "Edge::with_attrs", "Graph::with_attrs"}
BuilderOps == WithAttrsOps \cup {"Graph::with_nodes", "Graph::with_edges"}
IsWithAttrs == last.op \in WithAttrsOps

Positions(kvs, k) == {i \in 1..Len(kvs) : kvs[i][1] = k}
Occurs(kvs, k) == Positions(kvs, k) # {}
ValuesOf(kvs, k) == {kvs[i][2] : i \in Positions(kvs, k)}
Largest(S) == CHOOSE i \in S : \A j \in S : j <= i
Smallest(S) == CHOOSE i \in S : \A j \in S : i <= j
LastValue(kvs, k) == kvs[Largest(Positions(kvs, k))][2]
NameMatches(nodes, name) == {i \in 1..Len(nodes) : nodes[i].name = name}

\* C1: after a with_attrs call, every key that occurs in the list passed holds the
\* value of its LAST occurrence in that list, whatever the map held before.
C1_LastOccurrenceWins ==
    IsWithAttrs =>
        \A k \in Keys :
            Occurs(last.arg, k) =>
                /\ k \in DOMAIN x.attrs
                /\ x.attrs[k] = LastValue(last.arg, k)

\* C2: after a with_attrs call, every key that occurs in the list passed holds a
\* value the list gives it, never the value the map held for it before the call;
\* so in a chain of two calls the later call's value stands.
C2_ListOverridesMap ==
    IsWithAttrs =>
        \A k \in Keys :
            Occurs(last.arg, k) =>
                /\ k \in DOMAIN x.attrs
                /\ x.attrs[k] \in ValuesOf(last.arg, k)

C2_Witness ==
    /\ IsWithAttrs
    /\ \E k \in DOMAIN last.before.attrs :
         /\ Occurs(last.arg, k)
         /\ last.before.attrs[k] \notin ValuesOf(last.arg, k)
         /\ x.attrs[k] # last.before.attrs[k]

\* C3: a with_attrs call leaves every key the list does not mention as it was
\* (present with the same value, or absent), an empty list returns an equal map,
\* and no key that was present is removed.
C3_Frame ==
    IsWithAttrs =>
        /\ \A k \in Keys :
             ~Occurs(last.arg, k) =>
                HashMap_get(x.attrs, k) = HashMap_get(last.before.attrs, k)
        /\ Len(last.arg) = 0 => x.attrs = last.before.attrs
        /\ DOMAIN last.before.attrs \subseteq DOMAIN x.attrs

C3_Witness ==
    /\ IsWithAttrs
    /\ Len(last.arg) > 0
    /\ \E k \in DOMAIN last.before.attrs, j \in Keys :
         /\ ~Occurs(last.arg, k)
         /\ x.attrs[k] = last.before.attrs[k]
         /\ j \notin DOMAIN last.before.attrs
         /\ j \in DOMAIN x.attrs

\* C4: g.node(n) returns the node at the smallest index whose name is n, and None
\* exactly when no node of g has that name.
C4_FirstMatch ==
    last.op = "Graph::node" =>
        LET hits == NameMatches(x.nodes, last.arg)
        IN  IF hits = {} THEN last.ret = None
            ELSE last.ret = Some(x.nodes[Smallest(hits)])

C4_Witness ==
    /\ last.op = "Graph::node"
    /\ last.ret # None
    /\ \E i, j \in NameMatches(x.nodes, last.arg) :
         /\ 1 < i
         /\ i < j
         /\ x.nodes[i] # x.nodes[j]
         /\ last.ret = Some(x.nodes[i])

\* C5: the node and edge sequences of a graph are the lists passed to with_nodes
\* and with_edges since Graph::new(), concatenated in call order: nothing is
\* reordered, dropped or deduplicated.
C5_Concatenation ==
    chain = "graph" =>
        /\ x.nodes = passed.nodes
        /\ x.edges = passed.edges

C5_Witness ==
    /\ last.op = "Graph::with_nodes"
    /\ Len(last.before.nodes) > 0
    /\ Len(last.arg) = 2
    /\ last.arg[1] # last.arg[2]
    /\ \E i \in 1..Len(last.before.nodes) : last.before.nodes[i].name = last.arg[2].name

\* C6: passing a list to with_nodes (with_edges) in one call gives the same graph
\* as passing it in two calls, split at any point.
C6_SplitCalls ==
    /\ last.op = "Graph::with_nodes" =>
         \A i \in 0..Len(last.arg) :
            Graph_with_nodes(Graph_with_nodes(last.before, SubSeq(last.arg, 1, i)),
                             SubSeq(last.arg, i + 1, Len(last.arg))) = x
    /\ last.op = "Graph::with_edges" =>
         \A i \in 0..Len(last.arg) :
            Graph_with_edges(Graph_with_edges(last.before, SubSeq(last.arg, 1, i)),
                             SubSeq(last.arg, i + 1, Len(last.arg))) = x

C6_Witness ==
    /\ last.op = "Graph::with_nodes"
    /\ Len(last.before.nodes) > 0
    /\ Len(last.arg) = 2
    /\ last.arg[1] # last.arg[2]
    /\ x = Graph_with_nodes(Graph_with_nodes(last.before, <<last.arg[1]>>), <<last.arg[2]>>)

\* C7: a builder call changes only the component it names: with_nodes keeps edges
\* and attrs, with_edges keeps nodes and attrs, Graph::with_attrs keeps nodes and
\* edges, Node::with_attrs keeps the name, Edge::with_attrs keeps both endpoints.
C7_OnlyNamedComponent ==
    /\ last.op = "Graph::with_nodes" =>
         x.edges = last.before.edges /\ x.attrs = last.before.attrs
    /\ last.op = "Graph::with_edges" =>
         x.nodes = last.before.nodes /\ x.attrs = last.before.attrs
    /\ last.op = "Graph::with_attrs" =>
         x.nodes = last.before.nodes /\ x.edges = last.before.edges
    /\ last.op = "Node::with_attrs" => x.name = last.before.name
    /\ last.op = "Edge::with_attrs" =>
         x.node1 = last.before.node1 /\ x.node2 = last.before.node2

C7_Witness ==
    /\ last.op = "Graph::with_attrs"
    /\ Len(x.nodes) > 0
    /\ Len(x.edges) > 0
    /\ x.attrs # last.before.attrs
    /\ DOMAIN last.before.attrs # {}

C9_AttrTotal ==
    /\ last.op \in {"Node::attr", "Edge::attr"} =>
         IF last.arg \in DOMAIN x.attrs
         THEN last.ret = Some(x.attrs[last.arg])
         ELSE last.ret = None
    /\ last.op = "Node::new" => \A k \in Keys : Node_attr(x, k) = None
    /\ last.op = "Edge::new" => \A k \in Keys : Edge_attr(x, k) = None

C9_Witness ==
    /\ last.op = "Node::attr"
    /\ last.ret = None
    /\ DOMAIN x.attrs # {}

\* C10: the map a with_attrs call returns does not depend on the order in which the
\* hash maps enumerate their entries: a second run of the call returns an equal map.
C10_OrderIndependent ==
    IsWithAttrs => last.rerun = last.ret

C10_Witness ==
    /\ IsWithAttrs
    /\ Cardinality(DOMAIN last.before.attrs) = 2
    /\ Len(last.arg) = 2
    /\ last.arg[1][1] # last.arg[2][1]
    /\ last.rerun = x

====
